---------------------------- MODULE Spec2Model ----------------------------
(***************************************************************************)
(* Model of scripts/extract-schedule-data.py: the formatter                *)
(* format_schedule_entry and the __main__ block that prints the banner and *)
(* one example entry.                                                      *)
(*                                                                         *)
(* Text is modelled character by character: a Python str is a sequence of  *)
(* one-character strings, so that quoting, ordering and line structure of  *)
(* the rendered text are facts about the sequence.  An entry is the tuple  *)
(* of the eight positional arguments                                       *)
(*   <<zone_code, week, batch, date, time_slot, equipment, or_number,      *)
(*     deadline>>, week an integer and the other seven character sequences.*)
(***************************************************************************)
EXTENDS Integers, Sequences, FiniteSets, TLC

VARIABLES
    pc,           \* position of the interpreter in the script / of the caller
    globals,      \* the module's global namespace (name -> value)
    stdout,       \* every character written to standard output so far
    args,         \* arguments of the most recent call of format_schedule_entry
    ret,          \* string returned by the most recent call (<<>>: none yet)
    exc,          \* exception raised by the most recent call ("None": none)
    hist,         \* history of calls: sequence of [args, ret] records
    exit_status   \* <<>> while the process runs, <<code>> once it has ended

vars == <<pc, globals, stdout, args, ret, exc, hist, exit_status>>

---------------------------------------------------------------------------
(* Bounds of the model *)

MaxLen == 1      \* longest string over Chars tried as a field value
MaxWeek == 12    \* week ranges over -MaxWeek .. MaxWeek (and the example's)
MaxCalls == 3    \* calls an importing program makes in one behaviour

---------------------------------------------------------------------------
(* The literal text of the f-string of line 12, cut at its replacement     *)
(* fields ("{{" and "}}" are the f-string escapes of "{" and "}").         *)

T0 == <<" ", " ", " ", " ", "{", " ", "z", "o", "n", "e", "C", "o", "d", "e", ":", " ", "'">>
T1 == <<"'", ",", " ", "w", "e", "e", "k", ":", " ">>
T2 == <<",", " ", "b", "a", "t", "c", "h", ":", " ", "'">>
T3 == <<"'", ",", " ", "d", "a", "t", "e", ":", " ", "'">>
T4 == <<"'", ",", " ", "t", "i", "m", "e", "S", "l", "o", "t", ":", " ", "'">>
T5 == <<"'", ",", " ", "e", "q", "u", "i", "p", "m", "e", "n", "t", "N", "u", "m", "b", "e", "r", ":", " ", "'">>
T6 == <<"'", ",", " ", "o", "r", "N", "u", "m", "b", "e", "r", ":", " ", "'">>
T7 == <<"'", ",", " ", "d", "e", "a", "d", "l", "i", "n", "e", ":", " ", "'">>
\* Variant: the closing text without the trailing comma.
T8_no_comma == <<"'", " ", "}">>

T8 == <<"'", " ", "}", ",">>

DigitChars == <<"0", "1", "2", "3", "4", "5", "6", "7", "8", "9">>

\* Decimal digits of a natural number, most significant first.
RECURSIVE NatStr(_)
NatStr(n) ==
    IF n < 10 THEN <<DigitChars[n + 1]>>
    ELSE NatStr(n \div 10) \o <<DigitChars[(n % 10) + 1]>>

\* Variant: the sign is dropped.
int_format_abs(n) == IF n < 0 THEN NatStr(-n) ELSE NatStr(n)

\* format(week, '') of an int: its decimal digits, "-" in front when negative.
\* Python ints are unbounded, so there is no width to wrap at.
int_format(n) == IF n < 0 THEN <<"-">> \o NatStr(-n) ELSE NatStr(n)

\* Variant: single quotes are escaped with a backslash.
RECURSIVE str_format_escaped(_)
str_format_escaped(s) ==
    IF s = <<>> THEN <<>>
    ELSE (IF Head(s) = "'" THEN <<"\\", "'">> ELSE <<Head(s)>>) \o str_format_escaped(Tail(s))

\* Variant: an empty value is rendered as the word null.
str_format_null(s) == IF s = <<>> THEN <<"n", "u", "l", "l">> ELSE s

\* Variant: a value is cut to a column width of eight characters.
str_format_truncating(s) == IF Len(s) > 8 THEN SubSeq(s, 1, 8) ELSE s

\* format(s, '') of a str: the string itself, nothing escaped or trimmed.
str_format(s) == s

\* Variant: the week is rendered between single quotes like the other values.
format_week_quoted(zone_code, week, batch, date, time_slot, equipment, or_number, deadline) ==
    T0 \o str_format(zone_code) \o T1 \o <<"'">> \o int_format(week) \o <<"'">> \o
    T2 \o str_format(batch) \o T3 \o str_format(date) \o
    T4 \o str_format(time_slot) \o T5 \o str_format(equipment) \o
    T6 \o str_format(or_number) \o T7 \o str_format(deadline) \o T8

\* Lines 10-12: the value of the f-string for the eight arguments.
format_schedule_entry(zone_code, week, batch, date, time_slot, equipment, or_number, deadline) ==
    T0 \o str_format(zone_code) \o T1 \o int_format(week) \o
    T2 \o str_format(batch) \o T3 \o str_format(date) \o
    T4 \o str_format(time_slot) \o T5 \o str_format(equipment) \o
    T6 \o str_format(or_number) \o T7 \o str_format(deadline) \o T8

\* Variant: the function also prints the line it returns.
Invoke_printing(a, g, out) ==
    LET line == format_schedule_entry(a[1], a[2], a[3], a[4], a[5], a[6], a[7], a[8]) IN
    [ ret     |-> line,
      exc     |-> "None",
      globals |-> g,
      stdout  |-> out \o line \o <<"\n">> ]

\* Variant: the function appends each line to a module-level buffer and
\* returns the buffer.
Invoke_accumulating(a, g, out) ==
    LET line == format_schedule_entry(a[1], a[2], a[3], a[4], a[5], a[6], a[7], a[8])
        buf == (IF "_entries" \in DOMAIN g THEN g["_entries"] ELSE <<>>) \o line
    IN  [ ret     |-> buf,
          exc     |-> "None",
          globals |-> ("_entries" :> buf) @@ g,
          stdout  |-> out ]

\* A call of the function with the tuple a in a program whose namespace is g
\* and whose output so far is out: the body is a docstring and one return,
\* so the call yields the string, raises nothing and leaves g and out alone.
Invoke(a, g, out) ==
    [ ret     |-> format_schedule_entry(a[1], a[2], a[3], a[4], a[5], a[6], a[7], a[8]),
      exc     |-> "None",
      globals |-> g,
      stdout  |-> out ]

\* print(s): the text and a newline go to standard output.
print(out, s) == out \o s \o <<"\n">>

---------------------------------------------------------------------------
(* Text and data of the __main__ block, lines 22-27 *)

Banner == <<"S", "c", "h", "e", "d", "u", "l", "e", " ", "D", "a", "t", "a", " ", "F", "o", "r", "m", "a", "t", "t", "e", "r">>
SepChar == "="
SepWidth == 50
\* Variant: the separator one character short.
Separator_short == [i \in 1..(SepWidth - 1) |-> SepChar]
Separator == [i \in 1..SepWidth |-> SepChar]
Usage == <<"\n", "U", "s", "e", " ", "t", "h", "i", "s", " ", "s", "c", "r", "i", "p", "t", " ", "t", "o", " ", "f", "o", "r", "m", "a", "t", " ", "s", "c", "h", "e", "d", "u", "l", "e", " ", "e", "n", "t", "r", "i", "e", "s", ".">>
ExampleLabel == <<"E", "x", "a", "m", "p", "l", "e", ":">>
ExampleEntry ==
    << <<"M", "T", "R", "-", "0", "1">>,
       45,
       <<"A">>,
       <<"2", "0", "2", "4", "-", "1", "1", "-", "0", "2">>,
       <<"S", "L", "O", "T", "_", "2", "3", "0", "0">>,
       <<"H", "O", "K", "-", "E", "2", "5">>,
       <<"5", "0", "0", "0", "3", "5", "5", "4", "4", "8">>,
       <<"1", "6", "-", "N", "o", "v">> >>

---------------------------------------------------------------------------
(* Inputs.  The formatter is defined for any eight values; the model draws *)
(* them from the sets below.                                               *)

Chars == {"A", "'", "\n"}

\* All strings over Chars of length at most n.
Strs(n) == UNION {[1..k -> Chars] : k \in 0..n}

\* Values that imitate the template's own separators, with and without the
\* quote characters.
Inject == <<"'", ",", " ", "d", "a", "t", "e", ":", " ", "'">>
InjectBare == <<",", " ", "d", "a", "t", "e", ":", " ">>

StrFields == {1, 3, 4, 5, 6, 7, 8}
WeekField == 2
Weeks == (-MaxWeek .. MaxWeek) \cup {ExampleEntry[WeekField], MaxWeek * MaxWeek, -(MaxWeek * MaxWeek)}

Vals(i) ==
    IF i = WeekField THEN Weeks
    ELSE Strs(MaxLen) \cup {Inject, InjectBare, ExampleEntry[i]}

AllEmpty == << <<>>, 0, <<>>, <<>>, <<>>, <<>>, <<>>, <<>> >>
Bases == {ExampleEntry, AllEmpty}

\* Every entry that differs from a base entry in at most two of its fields.
Inputs ==
    UNION { UNION { { [[b EXCEPT ![i] = v] EXCEPT ![j] = w] : v \in Vals(i), w \in Vals(j) }
                    : i \in 1..8, j \in 1..8 }
            : b \in Bases }

\* Two different entries whose rendered text is the same.
CollideA == [AllEmpty EXCEPT ![3] = Inject]
CollideB == [AllEmpty EXCEPT ![4] = Inject]

\* The entries an importing program passes in the model of the whole program.
CallInputs ==
    { ExampleEntry, [ExampleEntry EXCEPT ![2] = -7], AllEmpty, CollideA, CollideB,
      [AllEmpty EXCEPT ![8] = <<"\n">>] }

---------------------------------------------------------------------------
(* The program: the script is executed top to bottom, either as the main   *)
(* program or on import by another program, which may then call the         *)
(* function (usage notes, lines 17-20).                                    *)

ModuleNames == {"__main__", "extract-schedule-data"}

Init ==
    /\ pc = "def"
    /\ \E n \in ModuleNames :
           globals = [k \in {"__name__", "format_schedule_entry"} |->
                          IF k = "__name__" THEN n ELSE "unbound"]
    /\ stdout = <<>>
    /\ args = <<>>
    /\ ret = <<>>
    /\ exc = "None"
    /\ hist = <<>>
    /\ exit_status = <<>>

\* Line 10: the def statement binds the function's name.
DefFunction ==
    /\ pc = "def"
    /\ globals' = [globals EXCEPT !["format_schedule_entry"] = "function"]
    /\ pc' = "guard"
    /\ UNCHANGED <<stdout, args, ret, exc, hist, exit_status>>

\* Variant: the block runs without the guard.
Guard_unguarded ==
    /\ pc = "guard"
    /\ pc' = "line23"
    /\ UNCHANGED <<globals, stdout, args, ret, exc, hist, exit_status>>

\* Line 22: if __name__ == '__main__'.  On import the block is skipped and
\* the load is complete.
Guard ==
    /\ pc = "guard"
    /\ pc' = IF globals["__name__"] = "__main__" THEN "line23" ELSE "loaded"
    /\ UNCHANGED <<globals, stdout, args, ret, exc, hist, exit_status>>

\* Line 23: the banner.
PrintBanner ==
    /\ pc = "line23"
    /\ stdout' = print(stdout, Banner)
    /\ pc' = "line24"
    /\ UNCHANGED <<globals, args, ret, exc, hist, exit_status>>

\* Line 24: the separator, "=" * 50.
PrintSeparator ==
    /\ pc = "line24"
    /\ stdout' = print(stdout, Separator)
    /\ pc' = "line25"
    /\ UNCHANGED <<globals, args, ret, exc, hist, exit_status>>

\* Line 25: the usage text, which starts with a newline.
PrintUsage ==
    /\ pc = "line25"
    /\ stdout' = print(stdout, Usage)
    /\ pc' = "line26"
    /\ UNCHANGED <<globals, args, ret, exc, hist, exit_status>>

\* Line 26: the label.
PrintLabel ==
    /\ pc = "line26"
    /\ stdout' = print(stdout, ExampleLabel)
    /\ pc' = "line27"
    /\ UNCHANGED <<globals, args, ret, exc, hist, exit_status>>

\* The state after a call of the function with a, made at position pc.
Called(a, next) ==
    LET r == Invoke(a, globals, stdout) IN
    /\ args' = a
    /\ ret' = r.ret
    /\ exc' = r.exc
    /\ globals' = r.globals
    /\ stdout' = r.stdout
    /\ hist' = Append(hist, [args |-> a, ret |-> r.ret])
    /\ pc' = IF r.exc = "None" THEN next ELSE "traceback"
    /\ UNCHANGED exit_status

\* Line 27, the argument of print: the call with the example entry.
CallExample ==
    /\ pc = "line27"
    /\ Called(ExampleEntry, "line27_print")

\* Line 27, print of the value just returned.
PrintExample ==
    /\ pc = "line27_print"
    /\ stdout' = print(stdout, ret)
    /\ pc' = "end"
    /\ UNCHANGED <<globals, args, ret, exc, hist, exit_status>>

\* End of the script run as the main program: exit status 0.
Exit ==
    /\ pc = "end"
    /\ exit_status' = <<0>>
    /\ pc' = "exited"
    /\ UNCHANGED <<globals, stdout, args, ret, exc, hist>>

\* The importing program calls the function with an entry of its choice.
ImporterCall ==
    /\ pc = "loaded"
    /\ Len(hist) < MaxCalls
    /\ \E a \in CallInputs : Called(a, "loaded")

Next ==
    \/ DefFunction
    \/ Guard
    \/ PrintBanner
    \/ PrintSeparator
    \/ PrintUsage
    \/ PrintLabel
    \/ CallExample
    \/ PrintExample
    \/ Exit
    \/ ImporterCall

Spec == Init /\ [][Next]_vars

---------------------------------------------------------------------------
(* The formatter alone: one call with an entry drawn from Inputs.          *)

InitFmt ==
    /\ pc = "call"
    /\ globals = [k \in {"__name__", "format_schedule_entry"} |->
                      IF k = "__name__" THEN "extract-schedule-data" ELSE "function"]
    /\ stdout = <<>>
    /\ args \in Inputs
    /\ ret = <<>>
    /\ exc = "None"
    /\ hist = <<>>
    /\ exit_status = <<>>

Apply ==
    /\ pc = "call"
    /\ Called(args, "returned")

NextFmt == Apply

SpecFmt == InitFmt /\ [][NextFmt]_vars

---------------------------------------------------------------------------
(* Vocabulary of the properties: the rendered line as section 4.1 of the   *)
(* specification describes it, independently of the f-string's pieces.     *)

Keys ==
    << <<"z", "o", "n", "e", "C", "o", "d", "e">>,
       <<"w", "e", "e", "k">>,
       <<"b", "a", "t", "c", "h">>,
       <<"d", "a", "t", "e">>,
       <<"t", "i", "m", "e", "S", "l", "o", "t">>,
       <<"e", "q", "u", "i", "p", "m", "e", "n", "t", "N", "u", "m", "b", "e", "r">>,
       <<"o", "r", "N", "u", "m", "b", "e", "r">>,
       <<"d", "e", "a", "d", "l", "i", "n", "e">> >>

Indent == <<" ", " ", " ", " ">>
Open == <<"{", " ">>
Close == <<" ", "}", ",">>
Colon == <<":", " ">>
Comma == <<",", " ">>
Quote == "'"

Range(s) == {s[k] : k \in 1..Len(s)}

\* The pair of string field i: key, colon, value between single quotes.
QuotedPair(a, i) == Keys[i] \o Colon \o <<Quote>> \o a[i] \o <<Quote>>

\* Everything before, and everything after, the text of the week value.
BeforeWeek(a) == Indent \o Open \o QuotedPair(a, 1) \o Comma \o Keys[2] \o Colon
AfterWeek(a) ==
    Comma \o QuotedPair(a, 3) \o Comma \o QuotedPair(a, 4) \o Comma \o QuotedPair(a, 5) \o
    Comma \o QuotedPair(a, 6) \o Comma \o QuotedPair(a, 7) \o Comma \o QuotedPair(a, 8) \o Close

\* The text in the week's place of out, and its length.
WeekLen(a, out) == Len(out) - (Len(BeforeWeek(a)) + Len(AfterWeek(a)))
WeekText(a, out) == SubSeq(out, Len(BeforeWeek(a)) + 1, Len(out) - Len(AfterWeek(a)))

DigitValue(c) ==
    CASE c = "0" -> 0 [] c = "1" -> 1 [] c = "2" -> 2 [] c = "3" -> 3 [] c = "4" -> 4
      [] c = "5" -> 5 [] c = "6" -> 6 [] c = "7" -> 7 [] c = "8" -> 8 [] c = "9" -> 9
Digits == {"0", "1", "2", "3", "4", "5", "6", "7", "8", "9"}

\* s is the canonical decimal numeral of a natural number.
IsNumeral(s) ==
    /\ Len(s) >= 1
    /\ Range(s) \subseteq Digits
    /\ Len(s) > 1 => s[1] # "0"

RECURSIVE NumeralValue(_)
NumeralValue(s) ==
    IF s = <<>> THEN 0
    ELSE 10 * NumeralValue(SubSeq(s, 1, Len(s) - 1)) + DigitValue(s[Len(s)])

\* s is a bare integer literal: a numeral, with a minus sign in front of a
\* non-zero one for a negative value.
IsIntLiteral(s) ==
    \/ IsNumeral(s)
    \/ /\ Len(s) >= 2
       /\ s[1] = "-"
       /\ IsNumeral(Tail(s))
       /\ Tail(s) # <<"0">>

IntLiteralValue(s) == IF s[1] = "-" THEN -NumeralValue(Tail(s)) ELSE NumeralValue(s)

\* The lines of a text: the pieces between its newline characters, a final
\* piece without a newline after it being a line too.
RECURSIVE Lines(_)
Lines(s) ==
    IF s = <<>> THEN <<>>
    ELSE IF "\n" \notin Range(s) THEN <<s>>
    ELSE LET k == CHOOSE i \in 1..Len(s) : s[i] = "\n" /\ \A j \in 1..(i - 1) : s[j] # "\n"
         IN  <<SubSeq(s, 1, k - 1)>> \o Lines(SubSeq(s, k + 1, Len(s)))

HasLineBreak(a) == \E i \in StrFields : "\n" \in Range(a[i])
HasQuote(a) == \E i \in StrFields : Quote \in Range(a[i])

\* The layout of section 4.1: indentation, brace, the eight pairs in the
\* fixed order separated by commas, closing brace and trailing comma; the
\* string values between single quotes, the week a bare integer literal.
Layout(a, out) ==
    /\ WeekLen(a, out) >= 1
    /\ out = BeforeWeek(a) \o WeekText(a, out) \o AfterWeek(a)
    /\ IsIntLiteral(WeekText(a, out))
    /\ IntLiteralValue(WeekText(a, out)) = a[WeekField]

Returned == pc = "returned"

---------------------------------------------------------------------------
(* C1.  Original statement: for every combination of the eight fields the  *)
(* result is a single line holding the eight pairs in the fixed order,     *)
(* string values single-quoted and the week bare.                          *)
C1_Original ==
    Returned => Layout(args, ret) /\ Len(Lines(ret)) = 1

(* C1, amended: for every combination of the eight fields the result has   *)
(* the layout of section 4.1 (the eight pairs in the fixed order, string   *)
(* values single-quoted, week bare), and it is a single line whenever no   *)
(* string field contains a line break; a field's line break is carried     *)
(* into the result, which then spans more than one line.                   *)
C1_Layout ==
    Returned =>
        /\ Layout(args, ret)
        /\ ~HasLineBreak(args) => Len(Lines(ret)) = 1
        /\ HasLineBreak(args) => Len(Lines(ret)) > 1

C1_Witness ==
    /\ Returned
    /\ ~HasLineBreak(args)
    /\ HasQuote(args)
    /\ args[WeekField] < 0
    /\ Len(Lines(ret)) = 1

---------------------------------------------------------------------------
(* C2.  The example of section 8: the entry ('MTR-01', 45, 'A',            *)
(* '2024-11-02', 'SLOT_2300', 'HOK-E25', '5000355448', '16-Nov') yields    *)
(* exactly the text below, four spaces first, nothing before or after.     *)
ExpectedExample == <<" ", " ", " ", " ", "{", " ", "z", "o", "n", "e", "C", "o", "d", "e", ":", " ", "'", "M", "T", "R", "-", "0", "1", "'", ",", " ", "w", "e", "e", "k", ":", " ", "4", "5", ",", " ", "b", "a", "t", "c", "h", ":", " ", "'", "A", "'", ",", " ", "d", "a", "t", "e", ":", " ", "'", "2", "0", "2", "4", "-", "1", "1", "-", "0", "2", "'", ",", " ", "t", "i", "m", "e", "S", "l", "o", "t", ":", " ", "'", "S", "L", "O", "T", "_", "2", "3", "0", "0", "'", ",", " ", "e", "q", "u", "i", "p", "m", "e", "n", "t", "N", "u", "m", "b", "e", "r", ":", " ", "'", "H", "O", "K", "-", "E", "2", "5", "'", ",", " ", "o", "r", "N", "u", "m", "b", "e", "r", ":", " ", "'", "5", "0", "0", "0", "3", "5", "5", "4", "4", "8", "'", ",", " ", "d", "e", "a", "d", "l", "i", "n", "e", ":", " ", "'", "1", "6", "-", "N", "o", "v", "'", " ", "}", ",">>

SpecExampleArgs ==
    << <<"M", "T", "R", "-", "0", "1">>, 45, <<"A">>,
       <<"2", "0", "2", "4", "-", "1", "1", "-", "0", "2">>,
       <<"S", "L", "O", "T", "_", "2", "3", "0", "0">>,
       <<"H", "O", "K", "-", "E", "2", "5">>,
       <<"5", "0", "0", "0", "3", "5", "5", "4", "4", "8">>,
       <<"1", "6", "-", "N", "o", "v">> >>

C2_Example ==
    (Returned /\ args = SpecExampleArgs) => ret = ExpectedExample

C2_Witness ==
    /\ Returned
    /\ args = SpecExampleArgs
    /\ Len(ret) = Len(ExpectedExample)

---------------------------------------------------------------------------
(* Positions in the rendered line, by counting characters. *)

PairWidth(a, j, wlen) ==
    Len(Keys[j]) + Len(Colon) + (IF j = WeekField THEN wlen ELSE Len(a[j]) + 2)

\* Length of the first n pairs, each with the comma and space after it.
RECURSIVE PairsLen(_, _, _)
PairsLen(a, n, wlen) ==
    IF n = 0 THEN 0
    ELSE PairsLen(a, n - 1, wlen) + PairWidth(a, n, wlen) + Len(Comma)

\* Index in out of the quote that opens the value of string field i.
OpenQuoteAt(a, i, out) ==
    Len(Indent) + Len(Open) + PairsLen(a, i - 1, WeekLen(a, out))
        + Len(Keys[i]) + Len(Colon) + 1

\* The value of every string field stands unchanged between two quotes.
Verbatim(a, out) ==
    \A i \in StrFields :
        LET q == OpenQuoteAt(a, i, out)
            n == Len(a[i])
        IN  /\ q >= 1
            /\ q + n + 1 <= Len(out)
            /\ out[q] = Quote
            /\ SubSeq(out, q + 1, q + n) = a[i]
            /\ out[q + n + 1] = Quote

\* What a further call with the entry a would return in the current state.
Rendered(a) == Invoke(a, globals, stdout).ret

---------------------------------------------------------------------------
(* C4.  The formatter is total and signals no error: every call returns a  *)
(* string, and every string field's value appears in it verbatim between   *)
(* its pair of single quotes: no validation, no range check, no escaping,  *)
(* also when the value holds a single quote or a line break.               *)
C4_TotalVerbatim ==
    pc # "call" =>
        /\ pc = "returned"
        /\ exc = "None"
        /\ Len(ret) > 0
        /\ Verbatim(args, ret)

C4_Witness ==
    /\ Returned
    /\ HasQuote(args)
    /\ HasLineBreak(args)
    /\ exc = "None"
    /\ Verbatim(args, ret)

---------------------------------------------------------------------------
(* C6.  When a string field is the empty string the call returns normally, *)
(* the field is rendered as its key followed by an empty pair of single    *)
(* quotes, and the rest of the line is what it is for any other value of   *)
(* that field.                                                             *)
C6_EmptyField ==
    Returned =>
        \A i \in StrFields :
            args[i] = <<>> =>
                LET q == OpenQuoteAt(args, i, ret)
                    k == Len(Keys[i]) + Len(Colon)
                IN  /\ exc = "None"
                    /\ q > k
                    /\ q + 1 <= Len(ret)
                    /\ SubSeq(ret, q - k, q + 1) = Keys[i] \o Colon \o <<Quote, Quote>>
                    /\ \A v \in Strs(MaxLen) \cup {ExampleEntry[i]} :
                           Rendered([args EXCEPT ![i] = v])
                               = SubSeq(ret, 1, q) \o v \o SubSeq(ret, q + 1, Len(ret))

C6_Witness ==
    /\ Returned
    /\ \E i \in StrFields : args[i] = <<>>
    /\ \E j \in StrFields : args[j] # <<>>
    /\ args[8] = <<>>
    /\ SubSeq(ret, Len(ret) - Len(Close) - 1, Len(ret)) = <<Quote, Quote>> \o Close

---------------------------------------------------------------------------
(* C7.  When week is zero or negative the call returns normally and the    *)
(* value is rendered bare after "week: ": its decimal digits, a minus sign *)
(* in front when negative, no quotes, no clamping, no rejection.           *)
C7_BareWeek ==
    (Returned /\ args[WeekField] <= 0) =>
        LET w == WeekText(args, ret) IN
        /\ exc = "None"
        /\ WeekLen(args, ret) >= 1
        /\ ret = BeforeWeek(args) \o w \o AfterWeek(args)
        /\ args[WeekField] = 0 => w = <<"0">>
        /\ args[WeekField] < 0 =>
               /\ w[1] = "-"
               /\ IsNumeral(Tail(w))
               /\ NumeralValue(Tail(w)) = -args[WeekField]

C7_Witness ==
    /\ Returned
    /\ args[WeekField] < -9
    /\ WeekText(args, ret)[1] = "-"

---------------------------------------------------------------------------
(* Reading a rendered line back: the string values are the pieces between  *)
(* the 1st and 2nd, 3rd and 4th, ... single quote; the week is the integer *)
(* literal between ", week: " and ", batch: ".                             *)

QuoteIdx(out) == SelectSeq([k \in 1..Len(out) |-> k], LAMBDA k : out[k] = Quote)
Between(out, i, j) == SubSeq(out, i + 1, j - 1)
WeekLead == Comma \o Keys[2] \o Colon
WeekTrail == Comma \o Keys[3] \o Colon

ParsedWeek(out) ==
    LET q == QuoteIdx(out)
        mid == Between(out, q[2], q[3])
    IN  SubSeq(mid, Len(WeekLead) + 1, Len(mid) - Len(WeekTrail))

Parseable(out) ==
    /\ Len(QuoteIdx(out)) = 14
    /\ LET q == QuoteIdx(out)
           mid == Between(out, q[2], q[3])
       IN  /\ Len(mid) > Len(WeekLead) + Len(WeekTrail)
           /\ SubSeq(mid, 1, Len(WeekLead)) = WeekLead
           /\ SubSeq(mid, Len(mid) - Len(WeekTrail) + 1, Len(mid)) = WeekTrail
    /\ IsIntLiteral(ParsedWeek(out))

Parse(out) ==
    LET q == QuoteIdx(out) IN
    << Between(out, q[1], q[2]),
       IntLiteralValue(ParsedWeek(out)),
       Between(out, q[3], q[4]),
       Between(out, q[5], q[6]),
       Between(out, q[7], q[8]),
       Between(out, q[9], q[10]),
       Between(out, q[11], q[12]),
       Between(out, q[13], q[14]) >>

---------------------------------------------------------------------------
(* C10.  On entries none of whose string fields holds a single quote the   *)
(* formatter is injective: the entry can be read back from the line, so    *)
(* two entries that differ in any field render differently.  With single   *)
(* quotes allowed it is not: CollideA and CollideB differ and render to    *)
(* the same line.                                                          *)
C10_Injective ==
    Returned =>
        /\ ~HasQuote(args) => (Parseable(ret) /\ Parse(ret) = args)
        /\ args = CollideA =>
               (CollideB \in Inputs /\ CollideB # args /\ ret = Rendered(CollideB))
        /\ args = CollideB =>
               (CollideA \in Inputs /\ CollideA # args /\ ret = Rendered(CollideA))

C10_Witness ==
    /\ Returned
    /\ args = CollideA
    /\ HasQuote(args)
    /\ ret = Rendered(CollideB)

---------------------------------------------------------------------------
(* The program as a whole *)

IsMain == globals["__name__"] = "__main__"
PrintPositions == {"line23", "line24", "line25", "line26", "line27_print"}
UsageLine == <<"U", "s", "e", " ", "t", "h", "i", "s", " ", "s", "c", "r", "i", "p", "t", " ", "t", "o", " ", "f", "o", "r", "m", "a", "t", " ", "s", "c", "h", "e", "d", "u", "l", "e", " ", "e", "n", "t", "r", "i", "e", "s", ".">>
IsSeparatorLine(l) == Len(l) = 50 /\ Range(l) = {"="}

(* C3.  Original statement: the program run with no arguments prints, in   *)
(* this order and with nothing else in between, a banner line, a line of   *)
(* exactly 50 "=", a blank line, the "Example:" label and the formatted    *)
(* line of the example entry.                                              *)
C3_Original ==
    pc = "exited" =>
        LET l == Lines(stdout) IN
        /\ Len(l) = 5
        /\ l[1] = Banner
        /\ IsSeparatorLine(l[2])
        /\ l[3] = <<>>
        /\ l[4] = ExampleLabel
        /\ l[5] = ExpectedExample

(* C3, amended: the program prints, in this order and with nothing else in *)
(* between, the banner line, a line of exactly 50 "=", a blank line, the   *)
(* line "Use this script to format schedule entries.", the "Example:"      *)
(* label and the formatted line of the example entry.                      *)
C3_Output ==
    pc = "exited" =>
        LET l == Lines(stdout) IN
        /\ Len(l) = 6
        /\ l[1] = Banner
        /\ IsSeparatorLine(l[2])
        /\ l[3] = <<>>
        /\ l[4] = UsageLine
        /\ l[5] = ExampleLabel
        /\ l[6] = ExpectedExample
        /\ stdout[Len(stdout)] = "\n"

C3_Witness ==
    /\ pc = "exited"
    /\ IsMain
    /\ Len(Lines(stdout)) = 6

---------------------------------------------------------------------------
(* C5.  Two calls with identical values for all eight arguments return     *)
(* identical strings, whatever calls were made before or between them.     *)
C5_SameArgsSameResult ==
    \A i, j \in 1..Len(hist) :
        hist[i].args = hist[j].args => hist[i].ret = hist[j].ret

C5_Witness ==
    /\ Len(hist) = 3
    /\ hist[1].args = hist[3].args
    /\ hist[2].args # hist[1].args
    /\ hist[1].ret = hist[3].ret

---------------------------------------------------------------------------
(* C8.  A call of the formatter changes no program state: it writes        *)
(* nothing to standard output and keeps nothing of its arguments or result *)
(* in the module's namespace; output is produced only by the print         *)
(* statements of the __main__ block.                                       *)
C8_Frame ==
    [][ /\ hist' # hist => (stdout' = stdout /\ globals' = globals /\ exit_status' = exit_status)
        /\ stdout' # stdout => (IsMain /\ pc \in PrintPositions /\ hist' = hist)
      ]_vars

C8_Witness ==
    /\ Len(hist) = 2
    /\ hist[1].args # hist[2].args
    /\ stdout = <<>>
    /\ DOMAIN globals = {"__name__", "format_schedule_entry"}

---------------------------------------------------------------------------
(* C9.  The demonstration is guarded by the one main-program conditional:  *)
(* loaded other than as the main program the script prints nothing and     *)
(* does not invoke the formatter; run as the main program it invokes the   *)
(* formatter exactly once, the result is the last thing printed, and the   *)
(* program ends with status 0.                                             *)
C9_Guarded ==
    [][ /\ (~IsMain /\ pc' = "loaded" /\ pc # "loaded") => (hist' = <<>> /\ stdout' = <<>>)
        /\ ~IsMain => (stdout' = <<>> /\ exit_status' = <<>>)
        /\ IsMain => Len(hist') <= 1
        /\ pc' = "exited" =>
               /\ IsMain
               /\ Len(hist') = 1
               /\ exit_status' = <<0>>
               /\ LET n == Len(ret') + 1 IN
                  /\ Len(stdout') >= n
                  /\ SubSeq(stdout', Len(stdout') - n + 1, Len(stdout')) = ret' \o <<"\n">>
      ]_vars

C9_WitnessImport ==
    /\ ~IsMain
    /\ pc = "loaded"
    /\ hist = <<>>
    /\ stdout = <<>>

C9_Witness ==
    /\ IsMain
    /\ pc = "exited"
    /\ Len(hist) = 1
    /\ exit_status = <<0>>

===========================================================================
